---- MODULE Spec2Model ----
(***************************************************************************)
(* State-machine model of the student-records backend.                     *)
(*                                                                         *)
(* The data store and the identity provider are external services; their   *)
(* tables are the state.  Every route handler is one action.  GPA values   *)
(* are held as integers in thousandths (3.504 is 3504) so that comparisons *)
(* and round(x, 2) are computed exactly.                                   *)
(***************************************************************************)
EXTENDS Integers, Sequences, FiniteSets, TLC

VARIABLES
    students,     \* the students table: a set of rows
    child,        \* the child tables: table name -> sequence of rows
    auth_users,   \* identity-provider accounts
    user_roles,   \* the user_roles join table
    next_id,      \* the next key the students table generates
    log,          \* requests handled so far, each with its response
    inflight,     \* uploads being handled: request -> its position and locals
    users         \* the users table of the FastAPI gateway: id, email, role

vars == <<students, child, auth_users, user_roles, next_id, log, inflight, users>>

\* the uploads handled at the same time
Requests == {1, 2}

\* an upload that has not arrived
IdleRequest == [pc |-> "idle", row |-> <<>>, found |-> <<>>]

NoRequests == [r \in Requests |-> IdleRequest]

(***************************************************************************)
(* Bounds of the model.                                                    *)
(***************************************************************************)
MaxHistRows == 3        \* rows of gpa_history in a reporting scenario
MaxOps == 2             \* requests per behaviour in the store scenarios
MaxStudents == 2        \* keys the students table can hand out

Null == "null"          \* Python None for an optional text field

None == 0 - 1           \* Python None for an optional number

(***************************************************************************)
(* Generic helpers.                                                        *)
(***************************************************************************)
SeqsUpTo(S, n) == UNION {[1..k -> S] : k \in 0..n}

Range(s) == {s[i] : i \in 1..Len(s)}

RECURSIVE SumOver(_, _)
SumOver(f, S) ==
    IF S = {} THEN 0
    ELSE LET x == CHOOSE y \in S : TRUE IN f[x] + SumOver(f, S \ {x})

Last(s) == s[Len(s)]

(***************************************************************************)
(* The child tables of a student profile.                                  *)
(***************************************************************************)
ListTables ==
    {"courses", "assessment_breakdowns", "gpa_history",
     "extracurricular_activities", "college_milestones",
     "narrative_comments", "counselor_notes", "behavior_notes",
     "soft_skills"}

SingletonTables == {"attendance", "iep_504_plans"}

ChildTables == ListTables \cup SingletonTables

EmptyChild == [t \in ChildTables |-> <<>>]

\* rows of table t owned by student sid, in table order
RowsOf(ch, t, sid) == SelectSeq(ch[t], LAMBDA r : r.student_id = sid)

ValsOf(ch, t, sid) ==
    LET rs == RowsOf(ch, t, sid) IN [i \in 1..Len(rs) |-> rs[i].val]

StudentIds(st) == {s.id : s \in st}

RECURSIVE SetToSeq(_)
\* rows of the students table as a list (by ascending id)
SetToSeq(S) ==
    IF S = {} THEN <<>>
    ELSE LET m == CHOOSE x \in S : \A y \in S : x.id <= y.id
         IN <<m>> \o SetToSeq(S \ {m})

(***************************************************************************)
(* Reporting aggregator: get_reports_trends.                               *)
(***************************************************************************)
\* Python compares the (academic_year, term) key as a tuple of strings.
\* The rank tables give the lexicographic order of the strings used here:
\* "2023-2024" < "2024-2025" and "Fall" < "Spring".
YearRank == [y \in {"2023-2024", "2024-2025"} |->
                IF y = "2023-2024" THEN 1 ELSE 2]

TermRank == [t \in {"Fall", "Spring"} |-> IF t = "Fall" THEN 1 ELSE 2]

KeyLess(a, b) ==
    \/ YearRank[a.academic_year] < YearRank[b.academic_year]
    \/ /\ a.academic_year = b.academic_year
       /\ TermRank[a.term] < TermRank[b.term]

KeyEq(a, b) == a.academic_year = b.academic_year /\ a.term = b.term

RECURSIVE InsertAsc(_, _)
\* stable insertion: x goes after every element whose key is <= its own
InsertAsc(s, x) ==
    IF s = <<>> THEN <<x>>
    ELSE IF KeyLess(x, Last(s)) THEN InsertAsc(SubSeq(s, 1, Len(s) - 1), x) \o <<Last(s)>>
    ELSE s \o <<x>>

RECURSIVE SortedAsc(_)
\* sorted(h, key=(academic_year, term)): ascending and stable
SortedAsc(h) ==
    IF h = <<>> THEN <<>>
    ELSE InsertAsc(SortedAsc(SubSeq(h, 1, Len(h) - 1)), Last(h))

RECURSIVE InsertDesc(_, _)
\* stable insertion for reverse=True: x goes after every element whose
\* key is >= its own, so equal keys keep their original order
InsertDesc(s, x) ==
    IF s = <<>> THEN <<x>>
    ELSE IF KeyLess(Last(s), x) THEN InsertDesc(SubSeq(s, 1, Len(s) - 1), x) \o <<Last(s)>>
    ELSE s \o <<x>>

RECURSIVE SortedDesc(_)
\* sorted(h, key=(academic_year, term), reverse=True)
SortedDesc(h) ==
    IF h = <<>> THEN <<>>
    ELSE InsertDesc(SortedDesc(SubSeq(h, 1, Len(h) - 1)), Last(h))

\* round(x, 2) on thousandths; a tie goes to the even hundredth
RoundNonNeg(x) ==
    LET q == x \div 10
        r == x % 10
    IN  IF r < 5 THEN 10 * q
        ELSE IF r > 5 THEN 10 * (q + 1)
        ELSE IF q % 2 = 0 THEN 10 * q ELSE 10 * (q + 1)

Round2(x) == IF x >= 0 THEN RoundNonNeg(x) ELSE 0 - RoundNonNeg(0 - x)

DropThreshold == 300    \* 0.3

\* student["gpa_history"] = gpa_map.get(student["id"], [])
GpaHistoryOf(ch, sid) == ValsOf(ch, "gpa_history", sid)

\* mutant of LatestGpa: the oldest entry is taken
LatestGpaOldest(h) == SortedAsc(h)[1].gpa_value

\* latest GPA used by the range filter and by the histogram
LatestGpa(h) == SortedDesc(h)[1].gpa_value

\* the grade-level query: "if grade_level:" applies the filter only for a
\* truthy value
StudentsQuery(st, grade_level) ==
    IF grade_level # None /\ grade_level # 0
    THEN SetToSeq({s \in st : s.grade_level = grade_level})
    ELSE SetToSeq(st)

PassesGpaRange(h, min_gpa, max_gpa) ==
    /\ h # <<>>
    /\ LatestGpa(h) # None
    /\ (min_gpa = None \/ LatestGpa(h) >= min_gpa)
    /\ (max_gpa = None \/ LatestGpa(h) <= max_gpa)

\* processed_students after the optional GPA-range filter
ProcessedStudents(st, ch, q) ==
    LET fetched == StudentsQuery(st, q.grade_level) IN
    IF q.min_gpa # None \/ q.max_gpa # None
    THEN SelectSeq(fetched,
             LAMBDA s : PassesGpaRange(GpaHistoryOf(ch, s.id), q.min_gpa, q.max_gpa))
    ELSE fetched

Buckets == {"0.0-1.0", "1.1-2.0", "2.1-3.0", "3.1-4.0"}

\* the if/elif chain of the histogram; "none" when no branch is taken
BucketOf(g) ==
    IF 0 <= g /\ g <= 1000 THEN "0.0-1.0"
    ELSE IF 1100 <= g /\ g <= 2000 THEN "1.1-2.0"
    ELSE IF 2100 <= g /\ g <= 3000 THEN "2.1-3.0"
    ELSE IF 3100 <= g /\ g <= 4000 THEN "3.1-4.0"
    ELSE "none"

GpaHistogram(ch, processed) ==
    [b \in Buckets |->
        Cardinality({i \in 1..Len(processed) :
            LET h == GpaHistoryOf(ch, processed[i].id) IN
            /\ h # <<>>
            /\ LatestGpa(h) # None
            /\ BucketOf(LatestGpa(h)) = b})]

SkillNames(ch) == {r.val : r \in Range(ch["soft_skills"])}

SoftSkillCoverage(ch, processed) ==
    LET ids == {processed[i].id : i \in 1..Len(processed)} IN
    [n \in {r.val : r \in {x \in Range(ch["soft_skills"]) : x.student_id \in ids}} |->
        Cardinality({i \in 1..Len(ch["soft_skills"]) :
            /\ ch["soft_skills"][i].student_id \in ids
            /\ ch["soft_skills"][i].val = n})]

\* the last two entries of the chronologically sorted history
Term2Entry(h) == SortedAsc(h)[Len(h)]

Term1Entry(h) == SortedAsc(h)[Len(h) - 1]

DropAmount(h) == Round2(Term1Entry(h).gpa_value - Term2Entry(h).gpa_value)

\* mutant of IsDrop: the length test is off by one
IsDropOffByOne(h) ==
    /\ Len(h) > 2
    /\ Term1Entry(h).gpa_value # None
    /\ Term2Entry(h).gpa_value # None
    /\ DropAmount(h) > DropThreshold

\* mutant of IsDrop: the threshold test is not strict
IsDropNonStrict(h) ==
    /\ Len(h) >= 2
    /\ Term1Entry(h).gpa_value # None
    /\ Term2Entry(h).gpa_value # None
    /\ DropAmount(h) >= DropThreshold

\* whether the student with history h is appended to gpa_drops_students
IsDrop(h) ==
    /\ Len(h) >= 2
    /\ Term1Entry(h).gpa_value # None
    /\ Term2Entry(h).gpa_value # None
    /\ DropAmount(h) > DropThreshold

GpaDropsStudents(ch, processed) ==
    LET flagged == SelectSeq(processed, LAMBDA s : IsDrop(GpaHistoryOf(ch, s.id)))
    IN  [i \in 1..Len(flagged) |->
            LET h == GpaHistoryOf(ch, flagged[i].id) IN
            [student_id  |-> flagged[i].id,
             term1       |-> <<Term1Entry(h).academic_year, Term1Entry(h).term>>,
             gpa1        |-> Term1Entry(h).gpa_value,
             term2       |-> <<Term2Entry(h).academic_year, Term2Entry(h).term>>,
             gpa2        |-> Term2Entry(h).gpa_value,
             drop_amount |-> DropAmount(h)]]

ReportRoles == {"admin", "teacher", "counselor"}

\* the response of get_reports_trends to query q
ReportsResponse(st, ch, q) ==
    IF q.user_role \notin ReportRoles
    THEN [status |-> 403]
    ELSE IF StudentsQuery(st, q.grade_level) = <<>>
    THEN [status |-> 200, gpa_histogram |-> <<>>,
          soft_skill_coverage |-> <<>>, gpa_drops_students |-> <<>>]
    ELSE LET processed == ProcessedStudents(st, ch, q) IN
         [status |-> 200,
          gpa_histogram |-> GpaHistogram(ch, processed),
          soft_skill_coverage |-> SoftSkillCoverage(ch, processed),
          gpa_drops_students |-> GpaDropsStudents(ch, processed)]

(***************************************************************************)
(* Reporting scenario: a store holding some students and GPA history, and  *)
(* one report request (the handler only reads).                            *)
(***************************************************************************)
GpaValues == {1050, 3200, 3500, 3504}

AcademicTerms == {<<"2023-2024", "Spring">>, <<"2024-2025", "Fall">>}

StudentRow(i) ==
    [id |-> i, student_id |-> None, email |-> Null, full_name |-> "n1",
     grade_level |-> 8 + i]

GpaRows(ids) ==
    {[student_id |-> i,
      val |-> [academic_year |-> p[1], term |-> p[2], gpa_value |-> g]] :
        i \in ids, p \in AcademicTerms, g \in GpaValues}

SkillRows(ids) ==
    IF ids = {} THEN <<>>
    ELSE [k \in 1..Cardinality(ids) |-> [student_id |-> k, val |-> "teamwork"]]

ReportQueries ==
    [user_role : {"teacher", "student"}, grade_level : {None, 9},
     min_gpa : {None, 3200}, max_gpa : {None, 3500}]

InitReports ==
    /\ students \in {{StudentRow(i) : i \in 1..n} : n \in 0..2}
    /\ child \in {[EmptyChild EXCEPT !["gpa_history"] = h,
                                     !["soft_skills"] = SkillRows(StudentIds(students))] :
                    h \in SeqsUpTo(GpaRows(StudentIds(students)), MaxHistRows)}
    /\ auth_users = {}
    /\ user_roles = {}
    /\ next_id = Cardinality(students) + 1
    /\ log = <<>>
    /\ inflight = NoRequests
    /\ users = {}

GetReportsTrends ==
    /\ log = <<>>
    /\ \E q \in ReportQueries :
          log' = <<[op |-> "get_reports_trends", req |-> q,
                    resp |-> ReportsResponse(students, child, q)]>>
    /\ UNCHANGED <<students, child, auth_users, users, user_roles, next_id, inflight>>

NextReports == GetReportsTrends

SpecReports == InitReports /\ [][NextReports]_vars

\* the report request handled and its response, when there is one
ReportDone == log # <<>> /\ log[1].op = "get_reports_trends" /\ log[1].resp.status = 200

ReportProcessed == ProcessedStudents(students, child, log[1].req)

DropsFor(sid) ==
    LET d == log[1].resp.gpa_drops_students IN
    {i \in 1..Len(d) : d[i].student_id = sid}

\* previous - latest over the last two entries in (academic_year, term) order
RawDrop(h) == Term1Entry(h).gpa_value - Term2Entry(h).gpa_value

C2_OnlyRealDrops ==
    ReportDone =>
        \A k \in 1..Len(log[1].resp.gpa_drops_students) :
            LET sid == log[1].resp.gpa_drops_students[k].student_id
                h == GpaHistoryOf(child, sid)
            IN  /\ Len(h) >= 2
                /\ RawDrop(h) > DropThreshold

\* a report over a student whose drop is exactly 0.3 and who is not flagged,
\* next to a student with a single entry
C2_Witness ==
    /\ ReportDone
    /\ \E i \in 1..Len(ReportProcessed) :
          LET h == GpaHistoryOf(child, ReportProcessed[i].id) IN
          /\ Len(h) >= 2
          /\ RawDrop(h) = DropThreshold
          /\ DropsFor(ReportProcessed[i].id) = {}
    /\ \E i \in 1..Len(ReportProcessed) :
          /\ Len(GpaHistoryOf(child, ReportProcessed[i].id)) = 1
          /\ DropsFor(ReportProcessed[i].id) = {}

\* C3 as stated: the bucket counts sum to the number of filtered students
\* that have at least one GPA history entry.
C3_HistogramSum ==
    ReportDone =>
        SumOver(log[1].resp.gpa_histogram, DOMAIN log[1].resp.gpa_histogram)
            = Cardinality({i \in 1..Len(ReportProcessed) :
                            GpaHistoryOf(child, ReportProcessed[i].id) # <<>>})

(***************************************************************************)
(* The data store.  The schema of the tables is not part of the handlers:  *)
(* every child table references students.id with ON DELETE CASCADE, and    *)
(* the two singleton tables are unique on student_id.                      *)
(***************************************************************************)
\* the foreign key of a child row: it must reference a stored profile
FKHolds(st, sid) == sid \in StudentIds(st)

\* ON DELETE CASCADE: the child rows of the deleted profiles go with them
CascadeDelete(ch, ids) ==
    [t \in ChildTables |-> SelectSeq(ch[t], LAMBDA r : r.student_id \notin ids)]

\* table(t).delete().eq("student_id", sid)
DeleteRows(ch, t, sid) ==
    [ch EXCEPT ![t] = SelectSeq(ch[t], LAMBDA r : r.student_id # sid)]

\* table(t).insert(rows): one statement, refused as a whole when a row
\* breaks the foreign key
InsertRows(st, ch, t, rows) ==
    IF \A i \in 1..Len(rows) : FKHolds(st, rows[i].student_id)
    THEN [ch |-> [ch EXCEPT ![t] = ch[t] \o rows], ok |-> TRUE]
    ELSE [ch |-> ch, ok |-> FALSE]

\* mutant of UpsertRow: the row is inserted whether or not one is there
UpsertRowAppends(st, ch, t, row) ==
    IF ~FKHolds(st, row.student_id) THEN [ch |-> ch, ok |-> FALSE]
    ELSE [ch |-> [ch EXCEPT ![t] = Append(ch[t], row)], ok |-> TRUE]

\* table(t).upsert(row, on_conflict="student_id")
UpsertRow(st, ch, t, row) ==
    IF ~FKHolds(st, row.student_id) THEN [ch |-> ch, ok |-> FALSE]
    ELSE IF \E i \in 1..Len(ch[t]) : ch[t][i].student_id = row.student_id
    THEN [ch |-> [ch EXCEPT ![t] =
                    [i \in 1..Len(ch[t]) |->
                        IF ch[t][i].student_id = row.student_id THEN row ELSE ch[t][i]]],
          ok |-> TRUE]
    ELSE [ch |-> [ch EXCEPT ![t] = Append(ch[t], row)], ok |-> TRUE]

\* .single().execute() raises unless exactly one row matches
SingleRaises(n) == n # 1

(***************************************************************************)
(* Profile writer: ingest and PATCH of a full profile.                     *)
(* An optional field of a payload is <<>> when absent and <<v>> when set.  *)
(***************************************************************************)
\* the order in which the handlers write the child tables
WriteOrder ==
    <<"courses", "assessment_breakdowns", "gpa_history", "attendance",
      "extracurricular_activities", "iep_504_plans", "college_milestones",
      "narrative_comments", "counselor_notes", "behavior_notes", "soft_skills">>

\* {"student_id": student_id, **item.model_dump()}: a key of the item
\* overrides the path id, and Course is the one item type with a
\* student_id field of its own
LinkedRow(t, sid, item) ==
    IF t = "courses" THEN [student_id |-> item.student_id, val |-> item]
    ELSE [student_id |-> sid, val |-> item]

LinkedRows(t, sid, items) == [i \in 1..Len(items) |-> LinkedRow(t, sid, items[i])]

\* PATCH of one collection: delete-all-then-insert for a list, upsert for a
\* singleton
ReplaceStep(st, ch, t, sid, v) ==
    IF t \in SingletonTables
    THEN UpsertRow(st, ch, t, [student_id |-> sid, val |-> v])
    ELSE LET cleared == DeleteRows(ch, t, sid) IN
         IF v = <<>> THEN [ch |-> cleared, ok |-> TRUE]
         ELSE InsertRows(st, cleared, t, LinkedRows(t, sid, v))

\* ingest of one collection: a plain insert, skipped for an empty list
InsertStep(st, ch, t, sid, v) ==
    IF t \in SingletonTables
    THEN InsertRows(st, ch, t, <<[student_id |-> sid, val |-> v]>>)
    ELSE IF v = <<>> THEN [ch |-> ch, ok |-> TRUE]
    ELSE InsertRows(st, ch, t, LinkedRows(t, sid, v))

RECURSIVE ApplyPatch(_, _, _, _, _)
\* the collection writes of update_student_profile_full from step i on; the
\* first write that raises ends the handler and earlier writes stay
ApplyPatch(st, ch, sid, p, i) ==
    IF i > Len(WriteOrder) THEN [ch |-> ch, ok |-> TRUE]
    ELSE LET t == WriteOrder[i] IN
         IF p[t] = <<>> THEN ApplyPatch(st, ch, sid, p, i + 1)
         ELSE LET r == ReplaceStep(st, ch, t, sid, p[t][1]) IN
              IF r.ok THEN ApplyPatch(st, r.ch, sid, p, i + 1)
              ELSE [ch |-> r.ch, ok |-> FALSE]

RECURSIVE ApplyIngest(_, _, _, _, _)
\* the collection writes of _insert_single_student_profile_normalized
ApplyIngest(st, ch, sid, p, i) ==
    IF i > Len(WriteOrder) THEN [ch |-> ch, ok |-> TRUE]
    ELSE LET t == WriteOrder[i] IN
         IF p[t] = <<>> THEN ApplyIngest(st, ch, sid, p, i + 1)
         ELSE LET r == InsertStep(st, ch, t, sid, p[t][1]) IN
              IF r.ok THEN ApplyIngest(st, r.ch, sid, p, i + 1)
              ELSE [ch |-> r.ch, ok |-> FALSE]

\* mutant of UpdateScalars: the fields that are not set are cleared
UpdateScalarsReplaces(st, sid, p) ==
    {IF s.id # sid THEN s
     ELSE [s EXCEPT !.full_name = IF p.full_name = <<>> THEN Null ELSE p.full_name[1],
                    !.grade_level = IF p.grade_level = <<>> THEN None ELSE p.grade_level[1]] :
        s \in st}

\* students.update(fields).eq("id", sid) with the scalar fields that are set
UpdateScalars(st, sid, p) ==
    {IF s.id # sid THEN s
     ELSE [s EXCEPT !.full_name = IF p.full_name = <<>> THEN @ ELSE p.full_name[1],
                    !.grade_level = IF p.grade_level = <<>> THEN @ ELSE p.grade_level[1]] :
        s \in st}

StaffRoles == {"admin", "teacher", "counselor"}

\* the status get_student_profile_full answers with
FullProfileStatus(st, ch, sid, role) ==
    IF role \notin StaffRoles THEN 403
    ELSE IF SingleRaises(Cardinality({s \in st : s.id = sid})) THEN 500
    ELSE IF SingleRaises(Len(RowsOf(ch, "iep_504_plans", sid))) THEN 500
    ELSE IF RowsOf(ch, "attendance", sid) # <<>> THEN 500
    ELSE 200

(***************************************************************************)
(* Store scenario: requests to the profile routes, one after the other.    *)
(***************************************************************************)
Ids == 1..MaxStudents

ExtIds == {101}         \* values of the external student_id column

ListVals == {<<>>, <<"b", "a">>}

CourseItem(k) == [student_id |-> k, course_name |-> "c"]

CourseLists == {<<>>} \cup {<<CourseItem(k)>> : k \in Ids}

NoPatch ==
    [t \in ChildTables \cup {"full_name", "grade_level"} |-> <<>>]

FullPatch ==
    [t \in ChildTables \cup {"full_name", "grade_level"} |->
        IF t = "full_name" THEN <<"n2">>
        ELSE IF t = "grade_level" THEN <<11>>
        ELSE IF t = "courses" THEN << <<CourseItem(1)>> >>
        ELSE IF t = "attendance" THEN <<"x2">>
        ELSE IF t = "iep_504_plans" THEN <<"y2">>
        ELSE << <<"b", "a">> >>]

PatchPayloads ==
    {NoPatch, FullPatch,
     [NoPatch EXCEPT !.full_name = <<"n2">>],
     [NoPatch EXCEPT !.grade_level = <<11>>],
     [NoPatch EXCEPT !.attendance = <<"x2">>],
     [NoPatch EXCEPT !.iep_504_plans = <<"y2">>]}
    \cup {[NoPatch EXCEPT ![t] = <<v>>] : t \in ListTables \ {"courses"}, v \in ListVals}
    \cup {[NoPatch EXCEPT !.courses = <<v>>] : v \in CourseLists}

NoRows == [t \in ChildTables |-> <<>>]

AllRows(k) ==
    [t \in ChildTables |->
        IF t = "courses" THEN << <<CourseItem(k)>> >>
        ELSE IF t = "attendance" THEN <<"x">>
        ELSE IF t = "iep_504_plans" THEN <<"y">>
        ELSE << <<"a">> >>]

IngestPayloads ==
    {NoRows, [AllRows(1) EXCEPT !.courses = <<>>]} \cup {AllRows(k) : k \in Ids}

\* a store that already holds one fully populated profile
SeededStudents ==
    {[id |-> 1, student_id |-> 101, email |-> "a@x", full_name |-> "n1",
      grade_level |-> 9]}

SeededChild == ApplyIngest(SeededStudents, EmptyChild, 1, AllRows(1), 1).ch

Init ==
    /\ \/ students = {} /\ child = EmptyChild /\ next_id = 1
       \/ students = SeededStudents /\ child = SeededChild /\ next_id = 2
    /\ auth_users = {}
    /\ user_roles = {}
    /\ log = <<>>
    /\ inflight = NoRequests
    /\ users = {}

\* what a log entry records of the store around a request for profile sid
Before(sid) == [t \in ChildTables |-> ValsOf(child, t, sid)]

BeforeAll(ids) ==
    [t \in ChildTables |-> SelectSeq(child[t], LAMBDA r : r.student_id \in ids)]

Entry(op, req, status, target, before) ==
    [op |-> op, req |-> req, status |-> status, target |-> target,
     before |-> before,
     changed |-> <<students', child'>> # <<students, child>>]

\* the entry of a PATCH: core_update tells whether an update of the
\* students table was issued, students_before is the table it met
PatchEntry(op, req, status, target, before, core_update) ==
    [core_update |-> core_update, students_before |-> students]
        @@ Entry(op, req, status, target, before)

\* POST /ingest
IngestStudentData ==
    /\ Len(log) < MaxOps
    /\ next_id <= MaxStudents
    /\ \E role \in {"admin", "student"}, p \in IngestPayloads :
          IF role # "admin"
          THEN /\ p = NoRows
               /\ UNCHANGED <<students, child, next_id>>
               /\ log' = Append(log, Entry("ingest_student_data",
                                    [role |-> role, payload |-> p], 403, {}, NoRows))
          ELSE LET row == [id |-> next_id, student_id |-> None, email |-> Null,
                           full_name |-> "n1", grade_level |-> 9]
                   st == students \cup {row}
                   r == ApplyIngest(st, child, next_id, p, 1)
               IN  /\ students' = st
                   /\ child' = r.ch
                   /\ next_id' = next_id + 1
                   /\ log' = Append(log, Entry("ingest_student_data",
                                        [role |-> role, payload |-> p, id |-> next_id],
                                        IF r.ok THEN 201 ELSE 500, {next_id}, NoRows))
    /\ UNCHANGED <<auth_users, users, user_roles, inflight>>

\* POST /students of the FastAPI router: a flat profile with its external id
CreateStudentProfile ==
    /\ Len(log) < MaxOps
    /\ next_id <= MaxStudents
    /\ \E ext \in ExtIds :
          /\ students' = students \cup
                {[id |-> next_id, student_id |-> ext, email |-> "a@x",
                  full_name |-> Null, grade_level |-> None]}
          /\ child' = child
          /\ log' = Append(log, Entry("create_student_profile",
                               [role |-> "admin", student_id |-> ext], 201, {next_id}, NoRows))
    /\ next_id' = next_id + 1
    /\ UNCHANGED <<auth_users, users, user_roles, inflight>>

\* PATCH /{student_id}
UpdateStudentProfileFull ==
    /\ Len(log) < MaxOps
    /\ \E role \in {"teacher", "student"}, sid \in Ids, p \in PatchPayloads :
          IF role \notin StaffRoles
          THEN /\ p = NoPatch
               /\ UNCHANGED <<students, child>>
               /\ log' = Append(log, PatchEntry("update_student_profile_full",
                                    [role |-> role, id |-> sid, payload |-> p],
                                    403, {}, Before(sid), FALSE))
          ELSE LET scalars == p.full_name # <<>> \/ p.grade_level # <<>>
                   st == IF scalars
                         THEN UpdateScalars(students, sid, p) ELSE students
                   r == ApplyPatch(st, child, sid, p, 1)
               IN  /\ students' = st
                   /\ child' = r.ch
                   /\ log' = Append(log, PatchEntry("update_student_profile_full",
                                        [role |-> role, id |-> sid, payload |-> p],
                                        IF r.ok THEN FullProfileStatus(st, r.ch, sid, role)
                                        ELSE 500,
                                        {x \in StudentIds(students) : x = sid}, Before(sid),
                                        scalars))
    /\ UNCHANGED <<auth_users, users, user_roles, next_id, inflight>>

(***************************************************************************)
(* The delete routes.  Each deletes from students alone (one of them the   *)
(* courses rows too) and answers from the rows the store reports deleted.  *)
(***************************************************************************)
ExtKeys == ExtIds \cup {102}

MatchedById(st, k) == {s \in st : s.id = k}

MatchedByStudentId(st, k) == {s \in st : s.student_id = k}

\* the module of delete_student imports get_supabase_client only: the name
\* supabase_client the handler uses is bound nowhere
DeleteStudentClientBound == FALSE

\* mutant of DeleteApply: the profile rows go, their child rows stay
DeleteApplyKeepsRows(op, req, matched, ch, found, notfound) ==
    /\ students' = students \ matched
    /\ child' = ch
    /\ log' = Append(log, Entry(op, req, IF matched # {} THEN found ELSE notfound,
                                StudentIds(matched), BeforeAll(StudentIds(matched))))

\* the effect of students.delete() on the matched rows
DeleteApply(op, req, matched, ch, found, notfound) ==
    /\ students' = students \ matched
    /\ child' = CascadeDelete(ch, StudentIds(matched))
    /\ log' = Append(log, Entry(op, req, IF matched # {} THEN found ELSE notfound,
                                StudentIds(matched), BeforeAll(StudentIds(matched))))

Forbidden(op, req) ==
    /\ UNCHANGED <<students, child>>
    /\ log' = Append(log, Entry(op, req, 403, {}, NoRows))

\* DELETE /students/{student_id} of the FastAPI router: the 404 is raised
\* inside the try block and "except Exception" turns it into a 500
DeleteStudentProfile ==
    /\ Len(log) < MaxOps
    /\ \E role \in {"admin", "student"}, k \in ExtKeys :
          LET req == [role |-> role, key |-> k] IN
          IF role # "admin" THEN k \in ExtIds /\ Forbidden("delete_student_profile", req)
          ELSE DeleteApply("delete_student_profile", req,
                           MatchedByStudentId(students, k), child, 204, 500)
    /\ UNCHANGED <<auth_users, users, user_roles, next_id, inflight>>

\* DELETE /{student_id} of the FastAPI router
DeleteStudent ==
    /\ Len(log) < MaxOps
    /\ \E role \in {"admin", "student"}, k \in Ids :
          LET req == [role |-> role, key |-> k] IN
          IF role # "admin" THEN k = 1 /\ Forbidden("delete_student", req)
          ELSE IF ~DeleteStudentClientBound
          THEN /\ UNCHANGED <<students, child>>
               /\ log' = Append(log, Entry("delete_student", req, 500,
                                    StudentIds(MatchedById(students, k)), NoRows))
          ELSE DeleteApply("delete_student", req, MatchedById(students, k), child, 204, 500)
    /\ UNCHANGED <<auth_users, users, user_roles, next_id, inflight>>

\* DELETE /students/{student_id} of the api router: the courses rows first,
\* then the profile; HTTPException is re-raised as it is
ApiDeleteStudentProfile ==
    /\ Len(log) < MaxOps
    /\ \E role \in {"admin", "student"}, k \in ExtKeys :
          LET req == [role |-> role, key |-> k] IN
          IF role # "admin" THEN k \in ExtIds /\ Forbidden("api_delete_student_profile", req)
          ELSE DeleteApply("api_delete_student_profile", req,
                           MatchedByStudentId(students, k),
                           DeleteRows(child, "courses", k), 204, 404)
    /\ UNCHANGED <<auth_users, users, user_roles, next_id, inflight>>

\* DELETE /api/students/<student_id> of the Flask app
ApiDeleteStudent ==
    /\ Len(log) < MaxOps
    /\ \E role \in {"admin", "student"}, k \in Ids :
          LET req == [role |-> role, key |-> k] IN
          IF role # "admin" THEN k = 1 /\ Forbidden("api_delete_student", req)
          ELSE DeleteApply("api_delete_student", req, MatchedById(students, k), child, 200, 404)
    /\ UNCHANGED <<auth_users, users, user_roles, next_id, inflight>>

\* DELETE /api/students/{student_id} of main.py
DeleteStudentData ==
    /\ Len(log) < MaxOps
    /\ \E role \in {"admin", "student"}, k \in ExtKeys :
          LET req == [role |-> role, key |-> k] IN
          IF role # "admin" THEN k \in ExtIds /\ Forbidden("delete_student_data", req)
          ELSE DeleteApply("delete_student_data", req,
                           MatchedByStudentId(students, k), child, 200, 404)
    /\ UNCHANGED <<auth_users, users, user_roles, next_id, inflight>>

\* POST /{student_id}/comments: the dependency hands the handler the token
\* data of an admin, which is none of the role names the handler compares
\* it with, so every request ends at the 403
AddNarrativeComment ==
    /\ Len(log) < MaxOps
    /\ \E role \in {"admin", "student"}, sid \in Ids :
          /\ role = "student" => sid = 1
          /\ UNCHANGED <<students, child>>
          /\ log' = Append(log, Entry("add_narrative_comment",
                               [role |-> role, id |-> sid], 403,
                               {x \in StudentIds(students) : x = sid}, NoRows))
    /\ UNCHANGED <<auth_users, users, user_roles, next_id, inflight>>

\* the bodies PATCH /students/{student_id} of the api router is sent
ApiPatches ==
    {[full_name |-> <<>>, courses |-> <<>>],
     [full_name |-> <<"n2">>, courses |-> <<>>],
     [full_name |-> <<>>, courses |-> << <<>> >>],
     [full_name |-> <<"n2">>, courses |-> << <<CourseItem(1)>> >>]}

\* PATCH /students/{student_id} of the api router: the core fields by the
\* external id, then the courses replaced.  The dumped courses are dicts,
\* so c.model_dump() raises once the old rows are deleted; an empty list
\* reaches insert([]), which the store answers or refuses.
ApiUpdateStudentProfile ==
    /\ Len(log) < MaxOps
    /\ child' = child
    /\ \E role \in {"teacher", "student"}, k \in ExtKeys, p \in ApiPatches,
          accept \in BOOLEAN :
          LET req == [role |-> role, key |-> k, payload |-> p]
              op == "api_update_student_profile"
              matched == MatchedByStudentId(students, k)
              st == IF p.full_name = <<>> THEN students
                    ELSE {IF s \in matched THEN [s EXCEPT !.full_name = p.full_name[1]]
                          ELSE s : s \in students}
              status == IF p.full_name = <<>> /\ p.courses = <<>> THEN 400
                        ELSE IF p.full_name # <<>> /\ matched = {} THEN 404
                        ELSE IF p.courses = <<>> THEN 200
                        ELSE IF p.courses[1] # <<>> THEN 500
                        ELSE IF accept THEN 200 ELSE 500
          IN
          /\ (p.courses = <<>> \/ p.courses[1] # <<>> \/ status \in {400, 404}) => accept
          /\ IF role \notin StaffRoles
             THEN /\ k \in ExtIds /\ p.courses = <<>> /\ p.full_name = <<>>
                  /\ UNCHANGED <<students, child>>
                  /\ log' = Append(log, PatchEntry(op, req, 403, {}, NoRows, FALSE))
             ELSE /\ students' = IF status \in {400, 404} THEN students ELSE st
                  /\ child' = IF status \in {400, 404} \/ p.courses = <<>> THEN child
                              ELSE DeleteRows(child, "courses", k)
                  /\ log' = Append(log, PatchEntry(op, req, status,
                                              StudentIds(matched), NoRows,
                                              p.full_name # <<>>))
    /\ UNCHANGED <<auth_users, users, user_roles, next_id, inflight>>

\* the fields a student may change in their own row
AllowedStudentFields == {"phone_number", "address", "email"}

\* mutant of UpdateStudentDataGuard: the keys of the update are not looked at
UpdateStudentDataGuardAnyField(role, username, k, update) ==
    IF role = "admin" THEN 200
    ELSE IF username # k THEN 403
    ELSE 200

\* the role validation of update_student_data: 403, or 200 when the
\* request goes on to the update
UpdateStudentDataGuard(role, username, k, update) ==
    IF role = "admin" THEN 200
    ELSE IF username # k THEN 403
    ELSE IF \E f \in DOMAIN update : f \notin AllowedStudentFields THEN 403
    ELSE 200

StudentUpdates ==
    {[email |-> "b@x"], [full_name |-> "n2"], [email |-> "b@x", grade_level |-> 11]}

\* PATCH /api/students/{student_id} of main.py: for admins, and for a
\* student on the row whose student_id is their username
UpdateStudentData ==
    /\ Len(log) < MaxOps
    /\ child' = child
    /\ \E role \in {"admin", "student"}, username \in ExtIds, k \in ExtKeys,
          u \in StudentUpdates :
          LET req == [role |-> role, username |-> username, key |-> k, payload |-> u]
              op == "update_student_data"
              guard == UpdateStudentDataGuard(role, username, k, u)
              matched == MatchedByStudentId(students, k)
          IN
          /\ role = "admin" => u = [email |-> "b@x"]
          /\ IF guard # 200
             THEN /\ students' = students
                  /\ log' = Append(log, PatchEntry(op, req, 403, StudentIds(matched),
                                                   NoRows, FALSE))
             ELSE /\ students' = {IF s \in matched
                                  THEN [f \in DOMAIN s |->
                                           IF f \in DOMAIN u THEN u[f] ELSE s[f]]
                                  ELSE s : s \in students}
                  /\ log' = Append(log, PatchEntry(op, req,
                                                   IF matched # {} THEN 200 ELSE 404,
                                                   StudentIds(matched), NoRows, TRUE))
    /\ UNCHANGED <<auth_users, users, user_roles, next_id, inflight>>

\* GET /{student_id}: the full profile of one student
GetStudentProfileFull ==
    /\ Len(log) < MaxOps
    /\ \E role \in {"teacher", "student"}, sid \in Ids :
          /\ role = "student" => sid = 1
          /\ UNCHANGED <<students, child>>
          /\ log' = Append(log, Entry("get_student_profile_full",
                               [role |-> role, id |-> sid],
                               FullProfileStatus(students, child, sid, role),
                               {x \in StudentIds(students) : x = sid}, Before(sid)))
    /\ UNCHANGED <<auth_users, users, user_roles, next_id, inflight>>

\* PATCH /students/{student_id} of the src router, for admins: the fields
\* that are set go to the row with that external id.  The 400 and the 404
\* are raised inside the try block and leave as 500.
UpdateStudentProfile ==
    /\ Len(log) < MaxOps
    /\ child' = child
    /\ \E role \in {"admin", "student"}, k \in ExtKeys,
          p \in {[email |-> <<>>], [email |-> <<"b@x">>]} :
          LET req == [role |-> role, key |-> k, payload |-> p]
              op == "update_student_profile"
              matched == MatchedByStudentId(students, k)
          IN
          IF role # "admin"
          THEN /\ k \in ExtIds /\ p.email = <<>>
               /\ students' = students
               /\ log' = Append(log, PatchEntry(op, req, 403, {}, NoRows, FALSE))
          ELSE IF p.email = <<>>
          THEN /\ students' = students
               /\ log' = Append(log, PatchEntry(op, req, 500, StudentIds(matched),
                                                NoRows, FALSE))
          ELSE /\ students' = {IF s \in matched THEN [s EXCEPT !.email = p.email[1]]
                               ELSE s : s \in students}
               /\ log' = Append(log, PatchEntry(op, req,
                                                IF matched # {} THEN 200 ELSE 500,
                                                StudentIds(matched), NoRows, TRUE))
    /\ UNCHANGED <<auth_users, users, user_roles, next_id, inflight>>

DeleteOps ==
    {"delete_student_profile", "delete_student", "api_delete_student_profile",
     "api_delete_student", "delete_student_data"}

Next ==
    \/ IngestStudentData
    \/ CreateStudentProfile
    \/ UpdateStudentProfileFull
    \/ DeleteStudentProfile
    \/ DeleteStudent
    \/ ApiDeleteStudentProfile
    \/ ApiDeleteStudent
    \/ DeleteStudentData
    \/ AddNarrativeComment
    \/ ApiUpdateStudentProfile
    \/ UpdateStudentProfile
    \/ GetStudentProfileFull
    \/ UpdateStudentData

Spec == Init /\ [][Next]_vars

(***************************************************************************)
(* Properties of the store scenario.                                       *)
(***************************************************************************)
LastEntry == log[Len(log)]

DeleteDone == log # <<>> /\ LastEntry.op \in DeleteOps /\ LastEntry.req.role = "admin"

\* C4: after a successful delete of a student profile no row of any child
\* table references a deleted profile, and no profile with the requested
\* key is left.
C4_CascadeComplete ==
    (DeleteDone /\ LastEntry.status \in {200, 204}) =>
        /\ \A t \in ChildTables : \A i \in 1..Len(child[t]) :
              child[t][i].student_id \notin LastEntry.target
        /\ StudentIds(students) \cap LastEntry.target = {}

\* a successful delete of a profile that had rows in every child table
C4_Witness ==
    /\ DeleteDone
    /\ LastEntry.status \in {200, 204}
    /\ LastEntry.target # {}
    /\ \A t \in ChildTables : LastEntry.before[t] # <<>>

PatchDone ==
    /\ log # <<>>
    /\ LastEntry.op = "update_student_profile_full"
    /\ LastEntry.req.role \in StaffRoles

\* every row the PATCH supplies names a profile that exists, so that no
\* insert of the PATCH is refused by the store
PatchStorable ==
    \A t \in ListTables : \A l \in Range(LastEntry.req.payload[t]) :
        \A i \in 1..Len(l) :
            LinkedRow(t, LastEntry.req.id, l[i]).student_id \in StudentIds(students)

\* C5 as stated: after a PATCH of an existing profile, none of whose writes
\* the store refuses, every list supplied non-null is exactly the student's
\* rows of that collection, and every collection left null keeps the rows it
\* had.
C5_PatchReplaces ==
    (PatchDone /\ LastEntry.target # {} /\ PatchStorable) =>
        \A t \in ListTables :
            IF LastEntry.req.payload[t] # <<>>
            THEN ValsOf(child, t, LastEntry.req.id) = LastEntry.req.payload[t][1]
            ELSE ValsOf(child, t, LastEntry.req.id) = LastEntry.before[t]

\* C9 as stated: a delete of a key that resolves to no profile answers 404
\* and leaves the store unchanged, on every delete route.
C9_DeleteNotFound ==
    (DeleteDone /\ LastEntry.target = {}) =>
        /\ LastEntry.status = 404
        /\ ~LastEntry.changed

(***************************************************************************)
(* Upload routes.  A file is its name's extension, its content type and    *)
(* the records parsed from it; an email is a string of a small alphabet    *)
(* whose lower-case form is looked up in a table.                          *)
(***************************************************************************)
RawEmails == {"A@x", "a@x", "b@x"}

\* str.lower()
Lower(e) == IF e = "A@x" THEN "a@x" ELSE e

\* student_email = str(row["email"]).lower()
StudentEmail(raw) == Lower(raw)

\* mutant of ExistingStudents: the lookup by email finds nothing
ExistingStudentsNone(st, email) == {}

\* students.select('id').eq('email', student_email)
ExistingStudents(st, email) == {s \in st : s.email = email}

\* .limit(1): the row the store returns first
FirstOf(found) == CHOOSE s \in found : \A t \in found : s.id <= t.id

UploadRow(e, g) == [email |-> e, name |-> "n2", gpa |-> g]

\* a students row written from an uploaded record
StoredRow(id, e, n) ==
    [id |-> id, student_id |-> None, email |-> e, full_name |-> n, grade_level |-> None]

\* a GPA row as the handler builds it for the student it resolved
GpaData(row, id) ==
    [student_id |-> id, val |-> [gpa |-> row.gpa, semester |-> "Fall", year |-> 2024]]

\* mutant of GpaHistoryToInsert: a GPA row is queued for every row written
GpaHistoryToInsertAlways(queue, row, id) == Append(queue, GpaData(row, id))

\* gpa_history_to_insert after a row whose profile write succeeded: the row
\* adds an entry when its gpa, semester and year are present
GpaHistoryToInsert(queue, row, id) ==
    IF row.gpa # None THEN Append(queue, GpaData(row, id)) ELSE queue

RECURSIVE ProcessRows(_, _, _, _)
\* the row loop of upload_students_data from row i on; refuse is the index
\* of the row whose profile write the store answers with no data (0: none).
\* acc holds the students table, the next key, the queued GPA rows and the
\* branch taken for each row.
ProcessRows(rows, i, refuse, acc) ==
    IF i > Len(rows) THEN acc
    ELSE LET email == StudentEmail(rows[i].email)
             found == ExistingStudents(acc.st, email)
             queued(id) == GpaHistoryToInsert(acc.queue, rows[i], id)
         IN  IF found # {}
             THEN LET id == FirstOf(found).id IN
                  IF refuse = i
                  THEN ProcessRows(rows, i + 1, refuse,
                           [acc EXCEPT !.branches = Append(@, "update_failed")])
                  ELSE ProcessRows(rows, i + 1, refuse,
                           [acc EXCEPT
                              !.st = {IF s.id = id
                                      THEN [s EXCEPT !.email = email, !.full_name = rows[i].name]
                                      ELSE s : s \in acc.st},
                              !.queue = queued(id),
                              !.branches = Append(@, "update")])
             ELSE IF refuse = i
                  THEN ProcessRows(rows, i + 1, refuse,
                           [acc EXCEPT !.branches = Append(@, "insert_failed")])
                  ELSE ProcessRows(rows, i + 1, refuse,
                           [acc EXCEPT
                              !.st = @ \cup {StoredRow(acc.nid, email, rows[i].name)},
                              !.nid = @ + 1,
                              !.queue = queued(acc.nid),
                              !.branches = Append(@, "insert")])

\* rows held for each stored spelling of an email before a request
EmailCounts(st) == [e \in RawEmails |-> Cardinality({s \in st : s.email = e})]

UploadEntry(op, req, status, branches) ==
    [op |-> op, req |-> req, status |-> status, branches |-> branches,
     before |-> EmailCounts(students),
     changed |-> <<students', child'>> # <<students, child>>]

UploadRejected(op, req, status) ==
    /\ UNCHANGED <<students, child, next_id>>
    /\ log' = Append(log, UploadEntry(op, req, status, <<>>))

\* the record lists of the uploaded tables
DataRowLists ==
    {<<>>,
     <<UploadRow("A@x", 3200)>>,
     <<UploadRow("a@x", None)>>,
     <<UploadRow("b@x", 3200)>>,
     <<UploadRow("A@x", 3200), UploadRow("a@x", 3200)>>,
     <<UploadRow("a@x", None), UploadRow("b@x", 3200)>>,
     <<UploadRow("b@x", 4500)>>}

DataFiles ==
    {[ext |-> "csv", cols_ok |-> TRUE, rows |-> r] : r \in DataRowLists}
    \cup {[ext |-> "xlsx", cols_ok |-> TRUE, rows |-> <<UploadRow("A@x", 3200)>>],
          [ext |-> "csv", cols_ok |-> FALSE, rows |-> <<>>],
          [ext |-> "txt", cols_ok |-> TRUE, rows |-> <<>>]}

\* POST /upload-students/ of the api router (and its copy in
\* api/upload_students.py): reconcile each row by lower-cased email, then
\* insert the queued GPA rows in one batch.  A batch insert the store
\* refuses either raises (answered 500) or comes back without data, which
\* the handler only prints.
UploadStudentsData ==
    /\ Len(log) < MaxOps
    /\ \E role \in {"admin", "student"}, f \in DataFiles, refuse \in 0..2,
          gres \in {"ok", "no_data", "raises"} :
          LET req == [role |-> role, file |-> f, refuse |-> refuse,
                      gpa_refused |-> gres # "ok"]
              op == "upload_students_data"
              gok == gres = "ok"
          IN
          IF role # "admin"
          THEN f.ext = "txt" /\ refuse = 0 /\ gok /\ UploadRejected(op, req, 403)
          ELSE IF f.ext \notin {"csv", "xls", "xlsx"}
          THEN refuse = 0 /\ gok /\ UploadRejected(op, req, 400)
          ELSE IF ~f.cols_ok
          THEN refuse = 0 /\ gok /\ UploadRejected(op, req, 400)
          ELSE /\ refuse <= Len(f.rows)
               /\ next_id + Len(f.rows) <= MaxStudents + 1
               /\ LET r == ProcessRows(f.rows, 1, refuse,
                               [st |-> students, nid |-> next_id,
                                queue |-> <<>>, branches |-> <<>>])
                  IN  /\ r.queue = <<>> => gok
                      /\ students' = r.st
                      /\ child' = IF gok
                                  THEN [child EXCEPT !.gpa_history = @ \o r.queue]
                                  ELSE child
                      /\ next_id' = r.nid
                      /\ log' = Append(log, [queue |-> r.queue]
                                               @@ UploadEntry(op, req,
                                                    IF gres = "raises" THEN 500 ELSE 200,
                                                    r.branches))
    /\ UNCHANGED <<auth_users, users, user_roles, inflight>>

CsvFiles ==
    {[ext |-> "txt", rows |-> <<>>],
     [ext |-> "csv", rows |-> <<>>],
     [ext |-> "csv", rows |-> <<UploadRow("A@x", 3200)>>],
     [ext |-> "csv", rows |-> <<UploadRow("a@x", 3200)>>]}

\* POST /upload-students-csv of the FastAPI router: the rows of the table
\* are inserted as they are, in one statement
UploadStudentsCsv ==
    /\ Len(log) < MaxOps
    /\ \E role \in {"admin", "student"}, f \in CsvFiles, accept \in BOOLEAN :
          LET req == [role |-> role, file |-> f, refuse |-> IF accept THEN 0 ELSE 1]
              op == "upload_students_csv"
          IN
          IF role # "admin"
          THEN f.ext = "txt" /\ accept /\ UploadRejected(op, req, 403)
          ELSE IF f.ext # "csv"
          THEN accept /\ UploadRejected(op, req, 400)
          ELSE IF f.rows = <<>> \/ ~accept
          THEN UploadRejected(op, req, 500)
          ELSE /\ next_id + Len(f.rows) <= MaxStudents + 1
               /\ students' = students \cup
                     {StoredRow(next_id + i - 1, f.rows[i].email, f.rows[i].name) :
                         i \in 1..Len(f.rows)}
               /\ child' = child
               /\ next_id' = next_id + Len(f.rows)
               /\ log' = Append(log, UploadEntry(op, req, 200, <<>>))
    /\ UNCHANGED <<auth_users, users, user_roles, inflight>>

BulkTypes ==
    {"text/csv", "application/json",
     "application/vnd.openxmlformats-officedocument.spreadsheetml.sheet"}

\* an uploaded batch: records is the list of its records: "complete",
\* "missing" (a required field is missing or does not parse), or, in a CSV,
\* "empty_json" / "bad_json" (complete but for a nested-JSON column that is
\* empty / holds text json.loads refuses)
BulkFile(name, ctype, shape, records) ==
    [has_name |-> name, ctype |-> ctype, shape |-> shape, records |-> records]

Xlsx == "application/vnd.openxmlformats-officedocument.spreadsheetml.sheet"

BulkFiles ==
    {BulkFile(FALSE, "text/csv", "table", <<>>),
     BulkFile(TRUE, "text/csv", "table", <<>>),
     BulkFile(TRUE, "text/csv", "table", <<"complete">>),
     BulkFile(TRUE, "text/csv", "table", <<"complete", "missing">>),
     BulkFile(TRUE, "text/csv", "table", <<"bad_json">>),
     BulkFile(TRUE, "text/csv", "table", <<"empty_json", "complete">>),
     BulkFile(TRUE, "application/json", "malformed", <<>>),
     BulkFile(TRUE, "application/json", "object", <<>>),
     BulkFile(TRUE, "application/json", "list", <<"missing", "complete">>),
     BulkFile(TRUE, "application/json", "list", <<"complete">>),
     BulkFile(TRUE, "application/json", "list", <<"complete", "complete">>),
     BulkFile(TRUE, Xlsx, "table", <<"complete">>),
     BulkFile(TRUE, "text/plain", "table", <<>>)}

\* parse_json_field(name, []): the parsed list, the default for an empty
\* column and for text that does not parse
ParseJsonField(kind) ==
    IF kind \in {"empty_json", "bad_json"} THEN <<>> ELSE <<"c">>

\* map_csv_to_student_payload: the nested columns are parsed, then the
\* payload is built with SoftSkillInferences(...), a name the module binds
\* nowhere, so the call raises NameError for every record
MapCsvToStudentPayload(kind) ==
    [courses |-> ParseJsonField(kind), built |-> FALSE]

\* what the per-record block does with a payload: it raises at
\* payload.soft_skill_inferences.soft_skill_inferences, the field being a
\* list, before it reaches the insert
RecordOutcome(kind) == "raised"

\* mutant of ProcessPayloads: a record that raises is counted as failed but
\* leaves no entry in the error list
RECURSIVE ProcessPayloadsDropsError(_, _, _)
ProcessPayloadsDropsError(records, i, acc) ==
    IF i > Len(records) THEN acc
    ELSE ProcessPayloadsDropsError(records, i + 1,
             IF RecordOutcome(records[i]) = "stored"
             THEN [acc EXCEPT !.processed_count = @ + 1]
             ELSE IF RecordOutcome(records[i]) = "no_data"
             THEN [acc EXCEPT !.failed_count = @ + 1,
                              !.errors = Append(@, "Failed to ingest")]
             ELSE [acc EXCEPT !.failed_count = @ + 1])

\* the loop over the payloads: the counters and the error list after
\* records i.. have been handled
RECURSIVE ProcessPayloads(_, _, _)
ProcessPayloads(records, i, acc) ==
    IF i > Len(records) THEN acc
    ELSE ProcessPayloads(records, i + 1,
             IF RecordOutcome(records[i]) = "stored"
             THEN [acc EXCEPT !.processed_count = @ + 1]
             ELSE IF RecordOutcome(records[i]) = "no_data"
             THEN [acc EXCEPT !.failed_count = @ + 1,
                              !.errors = Append(@, "Failed to ingest")]
             ELSE [acc EXCEPT !.failed_count = @ + 1,
                              !.errors = Append(@, "Error processing a student record")])

\* the summary upload_students_bulk returns for a batch
BulkSummary(records) ==
    ProcessPayloads(records, 1,
        [processed_count |-> 0, failed_count |-> 0, errors |-> <<>>])

\* students.upsert(rows, on_conflict="student_id") of one spreadsheet row
\* with external id ext
UpsertSheetRow(st, nid, ext) ==
    IF \E s \in st : s.student_id = ext
    THEN {IF s.student_id = ext THEN [s EXCEPT !.full_name = "n2"] ELSE s : s \in st}
    ELSE st \cup {[id |-> nid, student_id |-> ext, email |-> "a@x",
                   full_name |-> "n2", grade_level |-> None]}

\* POST /upload/students-bulk.  Whatever is raised inside the try block,
\* the 400s included, reaches "except Exception" and becomes a 500; only a
\* JSON decode error is answered 400.  The payloads are built before the
\* per-record block: a CSV record raises there in
\* map_csv_to_student_payload (the name SoftSkillInferences is bound
\* nowhere) and a JSON record with a missing field raises there in
\* StudentIngestionPayload(**item).  A complete JSON record raises in the
\* per-record block (payload.soft_skill_inferences is a list) before its
\* insert and is counted as failed.  The Excel branch upserts the sheet and
\* then reads the unbound payloads.
UploadStudentsBulk ==
    /\ Len(log) < MaxOps
    /\ \E role \in {"admin", "student"}, f \in BulkFiles, accept \in BOOLEAN :
          LET req == [role |-> role, file |-> f, refuse |-> IF accept THEN 0 ELSE 1]
              op == "upload_students_bulk"
              excel == f.ctype \notin {"text/csv", "application/json"} /\ f.ctype \in BulkTypes
          IN
          IF ~excel /\ ~accept THEN FALSE
          ELSE IF role # "admin"
          THEN f.ctype = "text/plain" /\ UploadRejected(op, req, 403)
          ELSE IF ~f.has_name
          THEN UploadRejected(op, req, 400)
          ELSE IF f.ctype = "text/csv"
          THEN IF \E i \in 1..Len(f.records) :
                     ~MapCsvToStudentPayload(f.records[i]).built
               THEN UploadRejected(op, req, 500)
               ELSE /\ UNCHANGED <<students, child, next_id>>
                    /\ log' = Append(log, [summary |-> BulkSummary(f.records)]
                                             @@ UploadEntry(op, req, 201, <<>>))
          ELSE IF f.ctype = "application/json"
          THEN IF f.shape = "malformed"
               THEN UploadRejected(op, req, 400)
               ELSE IF f.shape # "list" \/ "missing" \in Range(f.records)
               THEN UploadRejected(op, req, 500)
               ELSE /\ UNCHANGED <<students, child, next_id>>
                    /\ log' = Append(log, [summary |-> BulkSummary(f.records)]
                                             @@ UploadEntry(op, req, 201,
                                                  [i \in 1..Len(f.records) |-> "failed"]))
          ELSE IF excel
          THEN /\ next_id <= MaxStudents
               /\ students' = IF accept THEN UpsertSheetRow(students, next_id, 101)
                              ELSE students
               /\ child' = child
               /\ next_id' = IF Cardinality(students') > Cardinality(students)
                             THEN next_id + 1 ELSE next_id
               /\ log' = Append(log, UploadEntry(op, req, 500, <<>>))
          ELSE UploadRejected(op, req, 500)
    /\ UNCHANGED <<auth_users, users, user_roles, inflight>>

SheetFiles ==
    {[ext |-> "csv", rows |-> <<>>],
     [ext |-> "xlsx", rows |-> <<UploadRow("A@x", 3200)>>],
     [ext |-> "xlsx", rows |-> <<UploadRow("A@x", None), UploadRow("b@x", 3200)>>]}

\* the GPA entries of a sheet, one for each row that has a Current GPA, in
\* the order of the rows
RECURSIVE SheetGpas(_)
SheetGpas(rows) ==
    IF rows = <<>> THEN <<>>
    ELSE IF rows[1].gpa # None THEN <<rows[1].gpa>> \o SheetGpas(Tail(rows))
    ELSE SheetGpas(Tail(rows))

\* POST /api/students/upload of the Flask app: the rows of the sheet are
\* inserted with the email as it is written, then entry i of the GPA list
\* is given the id of inserted student i
UploadStudents ==
    /\ Len(log) < MaxOps
    /\ \E role \in {"admin", "student"}, f \in SheetFiles,
          res \in {"ok", "no_data", "raises"} :
          LET req == [role |-> role, file |-> f, refuse |-> IF res = "ok" THEN 0 ELSE 1]
              op == "upload_students"
              gpas == SheetGpas(f.rows)
          IN
          IF role # "admin"
          THEN f.ext = "csv" /\ res = "ok" /\ UploadRejected(op, req, 403)
          ELSE IF f.ext \notin {"xlsx", "xls"}
          THEN res = "ok" /\ UploadRejected(op, req, 400)
          ELSE IF res # "ok"
          THEN UploadRejected(op, req, IF res = "raises" THEN 500 ELSE 200)
          ELSE /\ next_id + Len(f.rows) <= MaxStudents + 1
               /\ students' = students \cup
                     {StoredRow(next_id + i - 1, f.rows[i].email, f.rows[i].name) :
                         i \in 1..Len(f.rows)}
               /\ child' = [child EXCEPT !.gpa_history = @ \o
                     [i \in 1..Len(gpas) |->
                         [student_id |-> next_id + i - 1,
                          val |-> [gpa |-> gpas[i], semester |-> Null, year |-> None]]]]
               /\ next_id' = next_id + Len(f.rows)
               /\ log' = Append(log, UploadEntry(op, req, 200, <<>>))
    /\ UNCHANGED <<auth_users, users, user_roles, inflight>>

UploadOps ==
    {"upload_students_data", "upload_students_csv", "upload_students_bulk",
     "upload_students"}

\* the store before the uploads: empty, or one profile written earlier by a
\* route that lower-cases the email or by one that stores it as given
InitUpload ==
    /\ \/ students = {} /\ next_id = 1
       \/ \E e \in {"a@x", "A@x"} : students = {StoredRow(1, e, "n1")} /\ next_id = 2
    /\ child = EmptyChild
    /\ auth_users = {}
    /\ user_roles = {}
    /\ log = <<>>
    /\ inflight = NoRequests
    /\ users = {}

NextUpload ==
    \/ UploadStudentsData
    \/ UploadStudentsCsv
    \/ UploadStudentsBulk
    \/ UploadStudents

SpecUpload == InitUpload /\ [][NextUpload]_vars

(***************************************************************************)
(* Properties of the upload scenario.                                      *)
(***************************************************************************)
PrevEntry == log[Len(log) - 1]

\* the last two requests are uploads of one and the same file through
\* upload_students_data, both answered 200, and the store accepted every
\* write of the first
SameUploadTwice ==
    /\ Len(log) >= 2
    /\ PrevEntry.op = "upload_students_data" /\ LastEntry.op = "upload_students_data"
    /\ PrevEntry.status = 200 /\ LastEntry.status = 200
    /\ PrevEntry.req.file = LastEntry.req.file
    /\ PrevEntry.req.refuse = 0
    /\ LastEntry.req.file.rows # <<>>

\* C6: when the same rows are uploaded twice in succession, every row of
\* the second upload takes the update branch, the second upload adds no
\* profile row, and an email that at most one profile held before the first
\* upload is held by exactly one profile afterwards.
C6_SecondUploadUpdates ==
    SameUploadTwice =>
        /\ \A i \in 1..Len(LastEntry.branches) :
              LastEntry.branches[i] \in {"update", "update_failed"}
        /\ \A r \in Range(LastEntry.req.file.rows) :
              LET e == StudentEmail(r.email) IN
              /\ EmailCounts(students)[e] = LastEntry.before[e]
              /\ PrevEntry.before[e] <= 1 => EmailCounts(students)[e] = 1

\* the same mixed-case row uploaded twice into a store that did not hold
\* the email: the first upload inserted, the second updated
C6_Witness ==
    /\ SameUploadTwice
    /\ LastEntry.req.file.rows = <<UploadRow("A@x", 3200)>>
    /\ PrevEntry.before["a@x"] = 0
    /\ PrevEntry.branches = <<"insert">>
    /\ LastEntry.branches = <<"update">>

\* the file of the request is of no type its route accepts
UnsupportedType(en) ==
    CASE en.op = "upload_students_data" -> en.req.file.ext \notin {"csv", "xls", "xlsx"}
      [] en.op = "upload_students_csv" -> en.req.file.ext # "csv"
      [] en.op = "upload_students" -> en.req.file.ext \notin {"xlsx", "xls"}
      [] en.op = "upload_students_bulk" ->
            en.req.file.has_name /\ en.req.file.ctype \notin BulkTypes
      [] OTHER -> FALSE

\* C10 as stated: an upload of an unsupported file type is answered 400 on
\* every upload route and writes no row.
C10_UnsupportedType400 ==
    (log # <<>> /\ LastEntry.op \in UploadOps /\ LastEntry.req.role = "admin"
        /\ UnsupportedType(LastEntry)) =>
        /\ LastEntry.status = 400
        /\ ~LastEntry.changed

(***************************************************************************)
(* Identity gateway.  auth_users holds the accounts of the identity        *)
(* provider, user_roles the rows of the role join table.  A token is its   *)
(* kind, the account it was issued for and the role claim it carries (the  *)
(* self-issued tokens of the FastAPI app carry one, the provider's tokens  *)
(* are looked up).                                                         *)
(***************************************************************************)
Token(kind, user, role) == [kind |-> kind, user |-> user, role |-> role]

Header(scheme, token) == [scheme |-> scheme, token |-> token]

NoToken == Token("none", None, Null)

\* supabase.auth.get_user(jwt): the account of a token the provider
\* verifies, None for every other token
GetUserIdFromJwt(accounts, token) ==
    IF token.kind = "valid" /\ \E a \in accounts : a.id = token.user
    THEN token.user ELSE None

\* mutant of GetUserRoles: no role is ever found
GetUserRolesEmpty(ur, uid) == {}

\* user_roles.select('roles(name)').eq('user_id', user_id)
GetUserRoles(ur, uid) == {r.role : r \in {x \in ur : x.user_id = uid}}

\* the handle_new_user trigger: a new account gets the role student
HandleNewUser(ur, uid) == ur \cup {[user_id |-> uid, role |-> "student"]}

\* mutant of AdminRequired: a caller without the admin role is answered 401
AdminRequiredDenies401(accounts, ur, h) ==
    IF h.scheme # "Bearer" THEN 401
    ELSE IF GetUserIdFromJwt(accounts, h.token) = None THEN 401
    ELSE IF "admin" \notin GetUserRoles(ur, GetUserIdFromJwt(accounts, h.token)) THEN 401
    ELSE 200

\* the admin_required decorator: the status it answers with, 200 when it
\* lets the request through to the handler
AdminRequired(accounts, ur, h) ==
    IF h.scheme # "Bearer" THEN 401
    ELSE IF GetUserIdFromJwt(accounts, h.token) = None THEN 401
    ELSE IF "admin" \notin GetUserRoles(ur, GetUserIdFromJwt(accounts, h.token)) THEN 403
    ELSE 200

\* mutant of AdminRequiredCalls: the token is resolved before the header
\* is looked at
AdminRequiredCallsResolveFirst(accounts, ur, h) ==
    IF h.scheme # "Bearer" THEN <<"get_user">>
    ELSE IF GetUserIdFromJwt(accounts, h.token) = None THEN <<"get_user">>
    ELSE IF "admin" \notin GetUserRoles(ur, GetUserIdFromJwt(accounts, h.token))
    THEN <<"get_user", "get_user_roles">>
    ELSE <<"get_user", "get_user_roles", "handler">>

\* what admin_required runs, in order: the provider's get_user, the role
\* lookup, the decorated handler
AdminRequiredCalls(accounts, ur, h) ==
    IF h.scheme # "Bearer" THEN <<>>
    ELSE IF GetUserIdFromJwt(accounts, h.token) = None THEN <<"get_user">>
    ELSE IF "admin" \notin GetUserRoles(ur, GetUserIdFromJwt(accounts, h.token))
    THEN <<"get_user", "get_user_roles">>
    ELSE <<"get_user", "get_user_roles", "handler">>

\* the student_or_admin_required decorator: every caller the provider
\* resolves is let through, with is_admin set from the role lookup
StudentOrAdminRequired(accounts, ur, h) ==
    IF h.scheme # "Bearer" THEN 401
    ELSE IF GetUserIdFromJwt(accounts, h.token) = None THEN 401
    ELSE 200

StudentOrAdminRequiredCalls(accounts, ur, h) ==
    IF h.scheme # "Bearer" THEN <<>>
    ELSE IF GetUserIdFromJwt(accounts, h.token) = None THEN <<"get_user">>
    ELSE <<"get_user", "get_user_roles", "handler">>

\* what GET /api/auth/user runs, in order
GetAuthenticatedUserCalls(accounts, h) ==
    IF h.scheme # "Bearer" THEN <<>>
    ELSE IF GetUserIdFromJwt(accounts, h.token) = None THEN <<"get_user">>
    ELSE <<"get_user", "get_user_roles">>

\* verify_token: the claims of a token that decodes and carries sub and role
VerifyToken(token) == token.kind = "valid" /\ token.role # Null

\* get_current_admin_user over get_current_user and the bearer scheme
GetCurrentAdminUser(h) ==
    IF h.scheme # "Bearer" THEN 401
    ELSE IF ~VerifyToken(h.token) THEN 401
    ELSE IF h.token.role # "admin" THEN 403
    ELSE 200

RoleNames == {"admin", "teacher", "student"}     \* the roles table

SignupEmails == {"", "s@x", "t@x"}

Passwords == {"", "pw1", "pw2"}

AuthEntry(op, req, status, roles) ==
    [op |-> op, req |-> req, status |-> status, roles |-> roles,
     registered |-> {a.email : a \in auth_users}]

\* the entry of a request to a route of the Flask app that takes a header:
\* calls is what ran, users the list the response carries
GuardedEntry(op, req, status, roles, calls, listed) ==
    [calls |-> calls, users |-> listed] @@ AuthEntry(op, req, status, roles)

\* POST /api/auth/signup
Signup ==
    /\ Len(log) < MaxOps
    /\ \E email \in SignupEmails, password \in {"", "pw1"} :
          LET req == [email |-> email, password |-> password]
              uid == Cardinality(auth_users) + 1
          IN
          IF email = "" \/ password = ""
          THEN /\ UNCHANGED <<auth_users, user_roles>>
               /\ log' = Append(log, AuthEntry("signup", req, 400, {}))
          ELSE IF \E a \in auth_users : a.email = email
          THEN /\ UNCHANGED <<auth_users, user_roles>>
               /\ log' = Append(log, AuthEntry("signup", req, 400, {}))
          ELSE /\ auth_users' = auth_users \cup
                     {[id |-> uid, email |-> email, password |-> password]}
               /\ user_roles' = HandleNewUser(user_roles, uid)
               /\ log' = Append(log, AuthEntry("signup", req, 201,
                                               GetUserRoles(user_roles', uid)))
    /\ UNCHANGED <<students, child, next_id, inflight, users>>

\* POST /api/auth/login
Login ==
    /\ Len(log) < MaxOps
    /\ \E email \in SignupEmails \cup {"adm@x"}, password \in Passwords :
          LET req == [email |-> email, password |-> password]
              match == {a \in auth_users : a.email = email /\ a.password = password}
          IN
          /\ email = "" => password = "pw1"
          /\ IF email = "" \/ password = ""
             THEN log' = Append(log, AuthEntry("login", req, 400, {}))
             ELSE IF match = {}
             THEN log' = Append(log, AuthEntry("login", req, 401, {}))
             ELSE log' = Append(log, AuthEntry("login", req, 200,
                                   GetUserRoles(user_roles, (CHOOSE a \in match : TRUE).id)))
    /\ UNCHANGED <<students, child, next_id, auth_users, users, user_roles, inflight>>

\* the headers a request can carry: none, another scheme, a bearer token
\* the provider rejects, and a token issued to an account
Headers ==
    {Header("none", NoToken), Header("Basic", NoToken),
     Header("Bearer", Token("garbage", None, Null)),
     Header("Bearer", Token("expired", 1, Null))}
    \cup {Header("Bearer", Token("valid", a.id, Null)) : a \in auth_users}

RoleLists == {<<>>, <<"admin">>, <<"student">>, <<"bogus", "teacher">>}

\* PATCH /api/users/<user_id>/roles behind admin_required: the user's rows
\* are deleted, then the rows of the known role names are inserted
UpdateUserRoles ==
    /\ Len(log) < MaxOps
    /\ \E h \in Headers, target \in {a.id : a \in auth_users},
          new_roles \in RoleLists, accept \in BOOLEAN :
          LET guard == AdminRequired(auth_users, user_roles, h)
              caller == GetUserIdFromJwt(auth_users, h.token)
              req == [header |-> h, target |-> target, new_roles |-> new_roles,
                      refuse |-> IF accept THEN 0 ELSE 1]
              before == {r.role : r \in {x \in user_roles : x.user_id = caller}}
              calls == AdminRequiredCalls(auth_users, user_roles, h)
              cleared == {r \in user_roles : r.user_id # target}
              rows == {[user_id |-> target, role |-> n] : n \in Range(new_roles) \cap RoleNames}
              handled == [guard |-> guard,
                          target_before |-> GetUserRoles(user_roles, target)]
          IN
          IF guard # 200
          THEN /\ target = 1 /\ new_roles = <<>> /\ accept
               /\ user_roles' = user_roles
               /\ log' = Append(log, handled @@ GuardedEntry("update_user_roles", req,
                                                   guard, before, calls, {}))
          ELSE /\ rows = {} => accept
               /\ user_roles' = IF accept THEN cleared \cup rows ELSE cleared
               /\ log' = Append(log, handled @@ GuardedEntry("update_user_roles", req,
                                                   IF accept THEN 200 ELSE 500,
                                                   before, calls, {}))
    /\ UNCHANGED <<students, child, next_id, auth_users, users, inflight>>

\* GET /api/auth/user: the id and the roles of the caller
GetAuthenticatedUser ==
    /\ Len(log) < MaxOps
    /\ \E h \in Headers :
          LET uid == GetUserIdFromJwt(auth_users, h.token)
              calls == GetAuthenticatedUserCalls(auth_users, h)
              req == [header |-> h]
          IN
          IF h.scheme # "Bearer" \/ uid = None
          THEN log' = Append(log, GuardedEntry("get_authenticated_user", req, 401,
                                               {}, calls, {}))
          ELSE log' = Append(log, GuardedEntry("get_authenticated_user", req, 200,
                                               GetUserRoles(user_roles, uid), calls, {}))
    /\ UNCHANGED <<students, child, next_id, auth_users, users, user_roles, inflight>>

\* the list get_users answers with: user_roles_map.get(user.id, ['student'])
UsersWithRoles(accounts, ur) ==
    {[id |-> a.id,
      roles |-> IF \E x \in ur : x.user_id = a.id
                THEN {x.role : x \in {y \in ur : y.user_id = a.id}}
                ELSE {"student"}] : a \in accounts}

\* GET /api/users behind admin_required
GetUsers ==
    /\ Len(log) < MaxOps
    /\ \E h \in Headers :
          LET guard == AdminRequired(auth_users, user_roles, h)
              calls == AdminRequiredCalls(auth_users, user_roles, h)
              req == [header |-> h]
          IN
          log' = Append(log, GuardedEntry("get_users", req, guard, {}, calls,
                               IF guard = 200 THEN UsersWithRoles(auth_users, user_roles)
                               ELSE {}))
    /\ UNCHANGED <<students, child, next_id, auth_users, users, user_roles, inflight>>

\* the tokens of the FastAPI app carry the role they were issued with
ClaimHeaders ==
    {Header("none", NoToken), Header("Basic", NoToken),
     Header("Bearer", Token("garbage", None, Null)),
     Header("Bearer", Token("expired", 1, "admin")),
     Header("Bearer", Token("valid", 1, Null))}
    \cup {Header("Bearer", Token("valid", 1, r)) : r \in {"admin", "student", "default"}}

\* GET /api/admin/dashboard behind get_current_admin_user
ReadAdminDashboard ==
    /\ Len(log) < MaxOps
    /\ \E h \in ClaimHeaders :
          log' = Append(log, AuthEntry("read_admin_dashboard",
                               [header |-> h], GetCurrentAdminUser(h),
                               IF VerifyToken(h.token) THEN {h.token.role} ELSE {}))
    /\ UNCHANGED <<students, child, next_id, auth_users, users, user_roles, inflight>>

\* the users rows of a deployment in which every account has its row
UsersOf(accounts) ==
    {[id |-> a.id, email |-> a.email,
      role |-> IF a.id = 1 THEN "admin" ELSE "default"] : a \in accounts}

CreateEmails == {"n@x", "adm@x"}

\* how the store answers the insert into users: with the row, without
\* data, or by raising
InsertResults == {"ok", "no_data", "raises"}

\* the identity-provider accounts after create_user has created account and
\* the users insert has answered: delete_user runs only in the branch taken
\* when the insert returns without data
CreateUserAccounts(accounts, account, dbres) ==
    IF dbres = "no_data" THEN accounts ELSE accounts \cup {account}

\* POST /admin/users behind get_current_admin_user: create the account at
\* the identity provider, then insert its row into users.  The new account
\* gets its role row from the handle_new_user trigger and loses it with
\* the account.
CreateUser ==
    /\ Len(log) < MaxOps
    /\ \E h \in ClaimHeaders, email \in CreateEmails, dbres \in InsertResults :
          LET guard == GetCurrentAdminUser(h)
              req == [header |-> h, email |-> email, insert |-> dbres]
              uid == Cardinality(auth_users) + 1
              account == [id |-> uid, email |-> email, password |-> "pw1"]
              after == CreateUserAccounts(auth_users, account, dbres)
          IN
          IF guard # 200
          THEN /\ email = "n@x" /\ dbres = "ok"
               /\ UNCHANGED <<auth_users, user_roles, users>>
               /\ log' = Append(log, [created |-> FALSE]
                                        @@ AuthEntry("create_user", req, guard, {}))
          ELSE IF \E a \in auth_users : a.email = email
          THEN /\ dbres = "ok"
               /\ UNCHANGED <<auth_users, user_roles, users>>
               /\ log' = Append(log, [created |-> FALSE]
                                        @@ AuthEntry("create_user", req, 400, {}))
          ELSE /\ auth_users' = after
               /\ user_roles' = IF account \in after
                                 THEN HandleNewUser(user_roles, uid)
                                 ELSE user_roles
               /\ users' = IF dbres = "ok"
                            THEN users \cup {[id |-> uid, email |-> email,
                                               role |-> "default"]}
                            ELSE users
               /\ log' = Append(log, [created |-> TRUE]
                                        @@ AuthEntry("create_user", req,
                                             IF dbres = "ok" THEN 201 ELSE 500, {}))
    /\ UNCHANGED <<students, child, next_id, inflight>>

\* a deployment with its administrator, alone or next to an account whose
\* roles an earlier update_user_roles has cleared
InitAuth ==
    /\ students = {}
    /\ child = EmptyChild
    /\ next_id = 1
    /\ auth_users \in {{[id |-> 1, email |-> "adm@x", password |-> "pw1"]},
                       {[id |-> 1, email |-> "adm@x", password |-> "pw1"],
                        [id |-> 2, email |-> "t@x", password |-> "pw2"]}}
    /\ user_roles = {[user_id |-> 1, role |-> "admin"]}
    /\ log = <<>>
    /\ inflight = NoRequests
    /\ users = UsersOf(auth_users)

NextAuth ==
    \/ Signup
    \/ Login
    \/ GetAuthenticatedUser
    \/ GetUsers
    \/ UpdateUserRoles
    \/ ReadAdminDashboard
    \/ CreateUser

SpecAuth == InitAuth /\ [][NextAuth]_vars

(***************************************************************************)
(* Properties of the identity gateway.                                     *)
(***************************************************************************)
AdminRouteOps == {"update_user_roles", "read_admin_dashboard"}

\* the request carried a token that identifies its caller
TokenResolves(en) ==
    /\ en.req.header.scheme = "Bearer"
    /\ en.req.header.token.kind = "valid"
    /\ en.op = "read_admin_dashboard" => en.req.header.token.role # Null

SignupThenLogin ==
    /\ Len(log) >= 2
    /\ PrevEntry.op = "signup" /\ LastEntry.op = "login"
    /\ PrevEntry.req = LastEntry.req
    /\ PrevEntry.req.email # "" /\ PrevEntry.req.password # ""
    /\ PrevEntry.req.email \notin PrevEntry.registered

\* C8: a signup of credentials not registered before succeeds, the login
\* that follows it with the same credentials succeeds, and the roles the
\* login returns are exactly {"student"}.
C8_SignupLoginStudent ==
    SignupThenLogin =>
        /\ PrevEntry.status = 201
        /\ LastEntry.status = 200
        /\ LastEntry.roles = {"student"}

C8_Witness ==
    /\ SignupThenLogin
    /\ LastEntry.status = 200
    /\ LastEntry.req.email = "s@x"

\* a batch of records that upload_students_bulk takes apart, one of them
\* with a missing or unparseable required field
BulkWithFailingRecord ==
    /\ log # <<>>
    /\ LastEntry.op = "upload_students_bulk"
    /\ LastEntry.req.role = "admin"
    /\ LastEntry.req.file.has_name
    /\ LastEntry.req.file.ctype \in {"text/csv", "application/json"}
    /\ LastEntry.req.file.shape \in {"table", "list"}
    /\ "missing" \in Range(LastEntry.req.file.records)

\* C11 as stated: a batch with a failing record is answered 201 and the
\* failure is an entry of the returned error list.
C11_RecordFailsAlone ==
    BulkWithFailingRecord =>
        /\ LastEntry.status = 201
        /\ "failed" \in Range(LastEntry.branches)

\* an upload through upload_students_data in which the profile rows were
\* written and the store then refused the batch insert of their GPA rows
GpaInsertRefused ==
    /\ log # <<>>
    /\ LastEntry.op = "upload_students_data"
    /\ LastEntry.req.role = "admin"
    /\ LastEntry.req.gpa_refused

\* C12 as stated: when the child insert fails after the profile write, the
\* profile rows stay in the store and the caller is told of the failure.
C12_ChildFailureReported ==
    GpaInsertRefused =>
        /\ \A i \in 1..Len(LastEntry.branches) :
              LastEntry.branches[i] = "insert" =>
                 \E st \in students :
                    st.email = StudentEmail(LastEntry.req.file.rows[i].email)
        /\ LastEntry.status >= 400

\* row i of the upload has the email, up to letter case, of a profile the
\* store held before the request
HeldBefore(en, i) ==
    \E e \in RawEmails :
        /\ Lower(e) = Lower(en.req.file.rows[i].email)
        /\ en.before[e] > 0

\* C13 as stated: a row whose email differs at most in letter case from the
\* email of a stored profile is treated as that profile and takes the update
\* branch, whatever route stored the profile.
C13_CaseInsensitiveMatch ==
    (log # <<>> /\ LastEntry.op = "upload_students_data" /\ LastEntry.status = 200) =>
        \A i \in 1..Len(LastEntry.branches) :
            HeldBefore(LastEntry, i) =>
                LastEntry.branches[i] \in {"update", "update_failed"}

(***************************************************************************)
(* Invariants of the store scenario.                                       *)
(***************************************************************************)
\* C14: every student has at most one IEP/504 row and at most one
\* attendance row, after any sequence of ingest, PATCH and delete requests.
C14_SingletonsUnique ==
    \A t \in SingletonTables : \A sid \in Ids : Len(RowsOf(child, t, sid)) <= 1

\* a PATCH that supplied attendance and an IEP/504 plan for a student who
\* had both, and who has one of each afterwards
C14_Witness ==
    /\ PatchDone
    /\ LastEntry.target # {}
    /\ \A t \in SingletonTables :
          /\ LastEntry.req.payload[t] # <<>>
          /\ LastEntry.before[t] # <<>>
          /\ ValsOf(child, t, LastEntry.req.id) = LastEntry.req.payload[t]

ChildWriteOps ==
    {"update_student_profile_full", "api_update_student_profile",
     "add_narrative_comment"}

\* C15: every child row references a profile the store holds, and a PATCH
\* or child write addressed to an id with no profile leaves the store as
\* it was.
C15_ForeignKeysLive ==
    /\ \A t \in ChildTables : \A i \in 1..Len(child[t]) :
          child[t][i].student_id \in StudentIds(students)
    /\ (log # <<>> /\ LastEntry.op \in ChildWriteOps /\ LastEntry.target = {})
          => ~LastEntry.changed

\* the largest gpa_value the api models accept, in thousandths
GpaMax == 4000

\* the GPA values an uploaded table carries
FileGpas(en) ==
    {en.req.file.rows[i].gpa : i \in 1..Len(en.req.file.rows)} \ {None}

\* C16: every GPA row in the store holds a value in [0.0, 4.0], and an
\* upload that carries a value outside the range is refused and writes no
\* GPA row.
C16_GpaInRange ==
    /\ \A i \in 1..Len(child["gpa_history"]) :
          child["gpa_history"][i].val.gpa \in 0..GpaMax
    /\ (log # <<>> /\ LastEntry.op = "upload_students_data"
           /\ LastEntry.status \notin {400, 403}
           /\ \E g \in FileGpas(LastEntry) : g \notin 0..GpaMax)
          => /\ LastEntry.status \in {400, 422}
             /\ ~LastEntry.changed

(***************************************************************************)
(* Two uploads handled at the same time.  upload_students_data makes one  *)
(* store call per step: the lookup by lower-cased email, the update or    *)
(* insert that follows from what the lookup returned, and the batch       *)
(* insert of the queued GPA rows.  Each upload carries one row.           *)
(***************************************************************************)
ConcurrentRow(r, e, g) ==
    [email |-> e, name |-> IF r = 1 THEN "n1" ELSE "n2", gpa |-> g]

\* the request arrives as admin with a readable one-row table
StartUpload(r) ==
    /\ inflight[r].pc = "idle"
    /\ \E e \in {"a@x", "A@x"}, g \in {None, 3200} :
          inflight' = [inflight EXCEPT ![r] =
                          [pc |-> "lookup", row |-> <<ConcurrentRow(r, e, g)>>,
                           found |-> <<>>]]
    /\ UNCHANGED <<students, child, auth_users, users, user_roles, next_id, log>>

\* supabase.table('students').select('id').eq('email', student_email)
LookupByEmail(r) ==
    /\ inflight[r].pc = "lookup"
    /\ LET found == ExistingStudents(students, StudentEmail(inflight[r].row[1].email))
       IN  inflight' = [inflight EXCEPT ![r].pc = "write",
                                        ![r].found = IF found = {} THEN <<>>
                                                     ELSE <<FirstOf(found).id>>]
    /\ UNCHANGED <<students, child, auth_users, users, user_roles, next_id, log>>

\* the update by id when the lookup returned a row, the insert otherwise
WriteStudent(r) ==
    /\ inflight[r].pc = "write"
    /\ LET row == inflight[r].row[1]
           email == StudentEmail(row.email)
       IN  IF inflight[r].found # <<>>
           THEN /\ students' = {IF s.id = inflight[r].found[1]
                                THEN [s EXCEPT !.email = email, !.full_name = row.name]
                                ELSE s : s \in students}
                /\ next_id' = next_id
                /\ inflight' = [inflight EXCEPT ![r].pc = "gpa"]
                /\ log' = Append(log, [op |-> "upload_students_data", request |-> r,
                                       branch |-> "update", row |-> row])
           ELSE /\ students' = students \cup {StoredRow(next_id, email, row.name)}
                /\ next_id' = next_id + 1
                /\ inflight' = [inflight EXCEPT ![r].pc = "gpa",
                                                ![r].found = <<next_id>>]
                /\ log' = Append(log, [op |-> "upload_students_data", request |-> r,
                                       branch |-> "insert", row |-> row])
    /\ UNCHANGED <<child, auth_users, users, user_roles>>

\* the batch insert of the queued GPA rows, then the 200 response
InsertGpaHistory(r) ==
    /\ inflight[r].pc = "gpa"
    /\ LET row == inflight[r].row[1]
       IN  child' = IF row.gpa = None THEN child
                    ELSE [child EXCEPT !.gpa_history =
                             Append(@, [student_id |-> inflight[r].found[1],
                                        val |-> [gpa |-> row.gpa, semester |-> "Fall",
                                                 year |-> 2024]])]
    /\ inflight' = [inflight EXCEPT ![r].pc = "done"]
    /\ UNCHANGED <<students, auth_users, users, user_roles, next_id, log>>

InitConcurrent ==
    /\ \/ students = {} /\ next_id = 1
       \/ students = {StoredRow(1, "a@x", "n0")} /\ next_id = 2
    /\ child = EmptyChild
    /\ auth_users = {}
    /\ user_roles = {}
    /\ log = <<>>
    /\ inflight = NoRequests
    /\ users = {}

NextConcurrent ==
    \/ \E r \in Requests : StartUpload(r)
    \/ \E r \in Requests : LookupByEmail(r)
    \/ \E r \in Requests : WriteStudent(r)
    \/ \E r \in Requests : InsertGpaHistory(r)

SpecConcurrent == InitConcurrent /\ [][NextConcurrent]_vars

BothUploadsDone ==
    /\ \A r \in Requests : inflight[r].pc = "done"
    /\ \A r \in Requests :
          StudentEmail(inflight[r].row[1].email) = StudentEmail(inflight[1].row[1].email)

\* C17: once two concurrent uploads of the same email have both finished,
\* the store holds exactly one profile row for that email, and it carries
\* the write made last.
C17_LastWriteWins ==
    BothUploadsDone =>
        LET rows == {s \in students :
                        s.email = StudentEmail(inflight[1].row[1].email)}
        IN  /\ Cardinality(rows) = 1
            /\ \A s \in rows : s.full_name = LastEntry.row.name

GuardedOps == {"update_user_roles", "get_users", "get_authenticated_user"}

\* the last request went to a guarded route without a bearer header
NoBearerHeader ==
    /\ log # <<>>
    /\ LastEntry.op \in GuardedOps
    /\ LastEntry.req.header.scheme # "Bearer"

\* C18: a request to a guarded route whose Authorization header is missing
\* or is not a bearer header is answered 401, and neither the provider's
\* token resolution nor the role lookup nor the handler has run for it.
C18_RejectedBeforeAnyCall ==
    /\ NoBearerHeader =>
          /\ LastEntry.status = 401
          /\ LastEntry.calls = <<>>
    /\ \A h \in Headers : h.scheme # "Bearer" =>
          /\ StudentOrAdminRequired(auth_users, user_roles, h) = 401
          /\ StudentOrAdminRequiredCalls(auth_users, user_roles, h) = <<>>

\* a role update sent with a Basic header after an account signed up
C18_Witness ==
    /\ NoBearerHeader
    /\ LastEntry.op = "update_user_roles"
    /\ LastEntry.req.header.scheme = "Basic"
    /\ LastEntry.status = 401
    /\ Cardinality(auth_users) > 1

\* C19: a user with no row in user_roles has no roles: the role lookup
\* returns the empty set, admin_required turns the user's token away, and
\* no response lists the user with a role.
C19_NoRowsNoRoles ==
    \A uid \in {a.id : a \in auth_users} :
        (~\E x \in user_roles : x.user_id = uid) =>
            LET h == Header("Bearer", Token("valid", uid, Null)) IN
            /\ GetUserRoles(user_roles, uid) = {}
            /\ AdminRequired(auth_users, user_roles, h) # 200
            /\ (log # <<>> /\ LastEntry.op = "get_users") =>
                  \A u \in LastEntry.users : u.id = uid => u.roles = {}

\* v is the value of an entry of h that no entry follows in
\* (academic_year, term) order
GreatestTermValue(h, v) ==
    \E i \in 1..Len(h) :
        /\ h[i].gpa_value = v
        /\ \A j \in 1..Len(h) : ~KeyLess(h[i], h[j])

\* v lies within the bounds the query supplies
WithinBounds(v, q) ==
    /\ q.min_gpa # None => q.min_gpa <= v
    /\ q.max_gpa # None => v <= q.max_gpa

\* the students a report with query q is about, by the claim: those of
\* the grade level asked for, less, when a bound is given, those without
\* history and those whose latest GPA is outside the bounds
ReportedStudents(q) ==
    {s \in Range(StudentsQuery(students, q.grade_level)) :
        LET h == GpaHistoryOf(child, s.id) IN
        (q.min_gpa # None \/ q.max_gpa # None) =>
            (h # <<>> /\ WithinBounds(LatestGpa(h), q))}

\* C20: the latest GPA of a student is the value of a history entry with
\* the greatest (academic_year, term); with a bound given the report covers
\* exactly the students who have history and whose latest GPA lies within
\* the bounds; a student without history is in no histogram bucket.
C20_LatestGpaFilter ==
    /\ \A s \in students :
          LET h == GpaHistoryOf(child, s.id) IN
          h # <<>> => GreatestTermValue(h, LatestGpa(h))
    /\ (ReportDone /\ StudentsQuery(students, log[1].req.grade_level) # <<>>) =>
          /\ Range(ReportProcessed) = ReportedStudents(log[1].req)
          /\ \A b \in Buckets :
                log[1].resp.gpa_histogram[b] =
                   Cardinality({s \in ReportedStudents(log[1].req) :
                       /\ GpaHistoryOf(child, s.id) # <<>>
                       /\ BucketOf(LatestGpa(GpaHistoryOf(child, s.id))) = b})

\* a report with both bounds over two students: one without history, one
\* whose newer entry is within the bounds and whose older entry is not
C20_Witness ==
    /\ ReportDone
    /\ log[1].req.min_gpa # None /\ log[1].req.max_gpa # None
    /\ log[1].req.grade_level = None
    /\ Cardinality(students) = 2
    /\ GpaHistoryOf(child, 2) = <<>>
    /\ Len(GpaHistoryOf(child, 1)) = 2
    /\ LatestGpa(GpaHistoryOf(child, 1)) = 3500
    /\ SortedAsc(GpaHistoryOf(child, 1))[1].gpa_value = 1050
    /\ KeyLess(GpaHistoryOf(child, 1)[2], GpaHistoryOf(child, 1)[1])
    /\ log[1].resp.gpa_histogram["3.1-4.0"] = 1
    /\ {s.id : s \in Range(ReportProcessed)} = {1}

\* the last request is a CSV batch to upload_students_bulk whose records
\* are complete but for a nested-JSON column that is empty or malformed
CsvWithBadJsonColumn ==
    /\ log # <<>>
    /\ LastEntry.op = "upload_students_bulk"
    /\ LastEntry.req.role = "admin"
    /\ LastEntry.req.file.has_name
    /\ LastEntry.req.file.ctype = "text/csv"
    /\ \A k \in Range(LastEntry.req.file.records) :
          k \in {"complete", "empty_json", "bad_json"}
    /\ \E k \in Range(LastEntry.req.file.records) : k \in {"empty_json", "bad_json"}

\* C21: a CSV record whose nested-JSON column is empty or malformed is
\* ingested with the field empty: the batch is answered 201, no record of
\* it is reported failed, and the store has taken the rows.
C21_BadJsonColumnIngested ==
    CsvWithBadJsonColumn =>
        /\ LastEntry.status = 201
        /\ \A i \in 1..Len(LastEntry.branches) : LastEntry.branches[i] # "failed"
        /\ LastEntry.changed

PatchOps ==
    {"update_student_profile_full", "api_update_student_profile",
     "update_student_profile"}

ScalarFields == {"full_name", "grade_level", "email", "student_id"}

\* what the request of entry en supplies for scalar field f: <<v>> or <<>>
Supplied(en, f) ==
    IF f \in DOMAIN en.req.payload THEN en.req.payload[f] ELSE <<>>

\* the row of students_before the request of entry en addresses
Addressed(en, s) ==
    IF en.op = "update_student_profile_full" THEN s.id = en.req.id
    ELSE s.student_id = en.req.key

\* the last request is a PATCH that passed the role check
PatchHandled ==
    /\ log # <<>>
    /\ LastEntry.op \in PatchOps
    /\ LastEntry.status # 403

ProfileRead ==
    /\ log # <<>>
    /\ LastEntry.op = "get_student_profile_full"
    /\ LastEntry.req.role \in StaffRoles

\* C23: a full-profile read of an existing student is answered 200 whatever
\* child rows the student has, and a read of an id with no profile is
\* answered 404.
C23_ReadSucceeds ==
    ProfileRead =>
        LastEntry.status = IF LastEntry.target # {} THEN 200 ELSE 404

\* the entry the range filter and the histogram take as the latest
LatestEntry(h) == SortedDesc(h)[1]

\* C24: within one report, for every student it covers, the entry the
\* filter and the histogram take as the latest is the entry drop detection
\* takes as the latest term.
C24_SameLatestEntry ==
    ReportDone =>
        \A i \in 1..Len(ReportProcessed) :
            LET h == GpaHistoryOf(child, ReportProcessed[i].id) IN
            Len(h) >= 2 => LatestEntry(h) = Term2Entry(h)

\* the only request so far is a spreadsheet upload through the Flask
\* route, answered 200: every gpa_history row is of its making
SheetUploaded ==
    /\ Len(log) = 1
    /\ LastEntry.op = "upload_students"
    /\ LastEntry.req.role = "admin"
    /\ LastEntry.changed

\* C25: every GPA row a spreadsheet upload inserts carries the id of the
\* student created from the spreadsheet row the GPA stands in.
C25_GpaLinkedToOwnRow ==
    SheetUploaded =>
        \A j \in 1..Len(child["gpa_history"]) :
            LET g == child["gpa_history"][j] IN
            \E i \in 1..Len(LastEntry.req.file.rows) :
                /\ LastEntry.req.file.rows[i].gpa = g.val.gpa
                /\ \E s \in students :
                      /\ s.id = g.student_id
                      /\ s.email = LastEntry.req.file.rows[i].email

\* the last request is an update_student_data by a caller who is no admin
NonAdminUpdate ==
    /\ log # <<>>
    /\ LastEntry.op = "update_student_data"
    /\ LastEntry.req.role # "admin"

\* the caller addresses their own row with fields a student may change
OwnAllowedUpdate(en) ==
    /\ en.req.username = en.req.key
    /\ DOMAIN en.req.payload \subseteq AllowedStudentFields

\* C26: an update_student_data by a non-admin that is not an update of the
\* caller's own row with allowed fields only is answered 403, issues no
\* update and leaves the store as it was.
C26_StudentUpdatesOwnAllowed ==
    (NonAdminUpdate /\ ~OwnAllowedUpdate(LastEntry)) =>
        /\ LastEntry.status = 403
        /\ ~LastEntry.core_update
        /\ ~LastEntry.changed

\* a student changed the email of their own row, then asked for a field
\* students may not change
C26_Witness ==
    /\ Len(log) >= 2
    /\ NonAdminUpdate
    /\ LastEntry.req.username = LastEntry.req.key
    /\ LastEntry.req.payload = [full_name |-> "n2"]
    /\ LastEntry.status = 403
    /\ PrevEntry.op = "update_student_data"
    /\ PrevEntry.req.role = "student"
    /\ OwnAllowedUpdate(PrevEntry)
    /\ PrevEntry.status = 200
    /\ PrevEntry.changed

\* the last request is a CSV or JSON batch for which upload_students_bulk
\* returned its summary
BulkSummaryReturned ==
    /\ log # <<>>
    /\ LastEntry.op = "upload_students_bulk"
    /\ LastEntry.status = 201
    /\ LastEntry.req.file.ctype \in {"text/csv", "application/json"}

\* C27: in the summary of a CSV or JSON batch processed_count plus
\* failed_count is the number of records of the batch, and the error list
\* has failed_count entries.
C27_CountsAddUp ==
    BulkSummaryReturned =>
        /\ LastEntry.summary.processed_count + LastEntry.summary.failed_count
              = Len(LastEntry.req.file.records)
        /\ Len(LastEntry.summary.errors) = LastEntry.summary.failed_count

\* a JSON batch of two records
C27_Witness ==
    /\ BulkSummaryReturned
    /\ LastEntry.req.file.ctype = "application/json"
    /\ Len(LastEntry.req.file.records) = 2
    /\ LastEntry.summary.failed_count = 2

\* the last request is an upload_students_data whose row loop ran
RowsReconciled ==
    /\ log # <<>>
    /\ LastEntry.op = "upload_students_data"
    /\ LastEntry.status \in {200, 500}

\* row i of the upload had its profile written and carries a GPA
QueuesGpa(en, i) ==
    /\ en.branches[i] \in {"insert", "update"}
    /\ en.req.file.rows[i].gpa # None

\* the rows of the upload that should have a GPA row, in file order
QueuingRows(en) ==
    LET Test(i) == QueuesGpa(en, i)
    IN  SelectSeq([i \in 1..Len(en.req.file.rows) |-> i], Test)

RolesRequestHandled ==
    /\ log # <<>>
    /\ LastEntry.op = "update_user_roles"
    /\ LastEntry.guard = 200

\* C29: after update_user_roles answers 200 the user holds exactly the
\* requested role names that the roles table knows; after it answers with an
\* error the user holds the roles held before the request.
C29_RolesReplacedOrKept ==
    RolesRequestHandled =>
        LET now == GetUserRoles(user_roles, LastEntry.req.target)
        IN  IF LastEntry.status = 200
            THEN now = Range(LastEntry.req.new_roles) \cap RoleNames
            ELSE now = LastEntry.target_before

\* the last request is a create_user for which the identity provider
\* created the account
AccountCreated ==
    /\ log # <<>>
    /\ LastEntry.op = "create_user"
    /\ LastEntry.created

\* C30: after create_user returns, with success or with an error, an
\* identity-provider account for the email exists exactly when a users row
\* for the email exists.
C30_AccountIffUsersRow ==
    AccountCreated =>
        ((\E a \in auth_users : a.email = LastEntry.req.email)
            <=> (\E u \in users : u.email = LastEntry.req.email))
====
